---- MODULE Spec2Model ----
(***************************************************************************)
(* A model of DockerDiff: the diff/pack/replay pipeline of ddiff.py and    *)
(* the parallel Store Seeder of hub2registry.py.                           *)
(*                                                                         *)
(* Python strings that are split, stripped, joined or concatenated by the  *)
(* code are sequences of tokens (a token is a lexeme the code never looks  *)
(* inside: a repository segment, a separator, a hex string).  The empty    *)
(* string is the empty sequence.                                           *)
(***************************************************************************)
EXTENDS Integers, Sequences, FiniteSets, TLC

(***************************************************************************)
(* Python string primitives, on token sequences.                           *)
(***************************************************************************)
Whitespace == {" ", "\n"}

RECURSIVE lstrip(_)
lstrip(s) ==
    IF s # <<>> /\ Head(s) \in Whitespace THEN lstrip(Tail(s)) ELSE s

RECURSIVE rstrip(_)
rstrip(s) ==
    IF s # <<>> /\ s[Len(s)] \in Whitespace
    THEN rstrip(SubSeq(s, 1, Len(s) - 1))
    ELSE s

\* str.strip()
strip(s) == rstrip(lstrip(s))

\* str.split(sep): the list of the segments between the separators; the
\* empty string splits into one empty segment.
RECURSIVE split(_, _)
split(s, sep) ==
    IF \E i \in 1..Len(s) : s[i] = sep
    THEN LET i == CHOOSE k \in 1..Len(s) :
                      s[k] = sep /\ \A j \in 1..(k - 1) : s[j] # sep
         IN  <<SubSeq(s, 1, i - 1)>> \o split(SubSeq(s, i + 1, Len(s)), sep)
    ELSE <<s>>

\* sep.join(parts)
RECURSIVE join(_, _)
join(parts, sep) ==
    IF parts = <<>> THEN <<>>
    ELSE IF Len(parts) = 1 THEN parts[1]
    ELSE parts[1] \o <<sep>> \o join(Tail(parts), sep)

\* str.replace(old, new) for single tokens
replace(s, old, new) == [i \in 1..Len(s) |-> IF s[i] = old THEN new ELSE s[i]]

\* set(list)
ToSet(s) == {s[i] : i \in 1..Len(s)}

\* The orders in which Python may iterate over a set.
Orders(S) ==
    {s \in [1..Cardinality(S) -> S] :
        \A i, j \in 1..Cardinality(S) : i # j => s[i] # s[j]}

(***************************************************************************)
(* Bounds and the digest universe.                                         *)
(***************************************************************************)
\* Longest layer list of a manifest.
MaxLayers == 2

\* How many times the package is replayed.
MaxReplays == 2

\* Digests "<algorithm>:<hex>": algorithm, ":", first two hex characters,
\* remaining hex characters.
DigestA == <<"sha256", ":", "aa", "01">>
DigestB == <<"sha256", ":", "bb", "02">>
DigestD == <<"sha256", ":", "dd", "04">>
Digests == {DigestA, DigestB, DigestD}

\* Strings a manifest may carry as a digest that are no sha256 digests: a
\* hex part of two characters only, and a hex part with other characters.
DigestShort == <<"sha256", ":", "cc">>
DigestNonHex == <<"sha256", ":", "zz", "09">>

(***************************************************************************)
(* ddiff.py: constants.                                                    *)
(***************************************************************************)
DOCKER_MANIFEST_V2 == <<"application/vnd.docker.distribution.manifest.v2+json">>
DOCKER_MANIFEST_LIST_V2 ==
    <<"application/vnd.docker.distribution.manifest.list.v2+json">>
OCI_MANIFEST_V1 == <<"application/vnd.oci.image.manifest.v1+json">>
OCI_INDEX_V1 == <<"application/vnd.oci.image.index.v1+json">>

SUPPORTED_MANIFEST_TYPES == {DOCKER_MANIFEST_V2, OCI_MANIFEST_V1}

\* Content-Type headers a registry may answer a manifest GET with: none at
\* all, a bare media type, a media type followed by parameters.
ContentTypeHeaders ==
    { <<>>,
      DOCKER_MANIFEST_V2,
      OCI_MANIFEST_V1 \o <<";", " ", "charset=utf-8">>,
      DOCKER_MANIFEST_V2 \o <<" ", ";", "q=1">> }

(***************************************************************************)
(* Blob bytes and hashing.  A blob body is streamed in BlobChunks chunks;  *)
(* sha256 is injective on the bodies the model knows and maps every other  *)
(* byte string (truncated, corrupted) to a digest no manifest names.       *)
(***************************************************************************)
BlobChunks == 2

Body(d) == [k \in 1..BlobChunks |-> <<d, k>>]

\* The digests of the manifests Docker Hub serves to the Store Seeder, and
\* the bytes of such a manifest (small: one chunk).
ManifestDigest1 == <<"sha256", ":", "11", "a1">>
ManifestDigest2 == <<"sha256", ":", "22", "a2">>
ManifestDigests == {ManifestDigest1, ManifestDigest2}
ManifestBytes(md) == << <<md, 0>> >>

OtherDigest == <<"sha256", ":", "ee", "99">>

sha256(bytes) ==
    IF \E d \in Digests : bytes = Body(d)
    THEN CHOOSE d \in Digests : bytes = Body(d)
    ELSE IF \E md \in ManifestDigests : bytes = ManifestBytes(md)
    THEN CHOOSE md \in ManifestDigests : bytes = ManifestBytes(md)
    ELSE OtherDigest

(***************************************************************************)
(* Manifests.  The JSON text of a manifest is the record json.loads makes  *)
(* of it: "config" is the list of the config digests present (none or      *)
(* one), "layers" the layer digests in order.                              *)
(***************************************************************************)
\* Layer lists: every list of distinct digests up to MaxLayers, one list
\* that names a layer twice, and one list for each malformed digest.
LayerLists ==
    {l \in UNION {[1..n -> Digests] : n \in 0..MaxLayers} :
        \A i, j \in 1..Len(l) : i # j => l[i] # l[j]}
    \cup {<<DigestB, DigestB>>, <<DigestShort>>, <<DigestNonHex>>}

ImageManifests ==
    [mediaType : {DOCKER_MANIFEST_V2},
     config : {<<>>} \cup {<<d>> : d \in Digests},
     layers : LayerLists]

\* One manifest for each other value of the JSON "mediaType" field:
\* absent, OCI, an index, a type outside the allow-list.
OtherTypedManifests ==
    [mediaType : {<<>>, OCI_MANIFEST_V1, OCI_INDEX_V1, <<"text/plain">>},
     config : {<<DigestA>>},
     layers : {<<DigestB>>}]

Manifests == ImageManifests \cup OtherTypedManifests

\* Base images: every one has a config blob.
BaseManifests == {m \in Manifests : m.config = <<DigestA>>}

(***************************************************************************)
(* Inputs of one diff / load run.                                          *)
(***************************************************************************)
BaseTagInput == <<"org", "/", "base">>
TargetTagInput == <<"org", "/", "app", ":", "v2">>

None == <<"None">>
NoFiles == <<>>

VARIABLES
    \* ---- ddiff.py ----
    dpc,                        \* position in diff_image / load_image
    ddiff_disable_repository,   \* env DDIFF_DISABLE_RESPOSITORY
    srcBase,                    \* manifest the source registry holds for base
    srcTarget,                  \* ... and for target
    srcContentType,             \* Content-Type it answers the target GET with
    base_manifest,              \* diff_image locals
    target_manifest,
    target_manifest_media_type,
    diff_blobs,
    diff_order,                 \* iteration order of the set diff_blobs
    mount_list,                 \* list(set(target_blobs) - diff_blobs)
    output_dir,                 \* .ddiff-image on the packing host
    archive,                    \* the emitted <target>.tar.gz, or None
    load_base_arg,              \* load_image's base_tag argument
    input_dir,                  \* .ddiff-image on the replaying host
    base_repo,                  \* load_image locals
    target_tag,
    mount_blobs,
    upload_blobs,
    manifest_media_type,
    loop_idx,                   \* index of the running for-loop
    dstBlobs,                   \* destination registry: <<repo, digest>> held
    dstTags,                    \* destination registry: tag -> manifest
    oplog,                      \* requests this load_image sent to the destination
    replays,                    \* load_image runs started on the package
    blob_gets                   \* digests _download_blob sent a GET for

ddiffVars ==
    <<dpc, ddiff_disable_repository, srcBase, srcTarget, srcContentType,
      base_manifest, target_manifest, target_manifest_media_type, diff_blobs,
      diff_order, mount_list, output_dir, archive, load_base_arg, input_dir,
      base_repo, target_tag, mount_blobs, upload_blobs, manifest_media_type, loop_idx,
      dstBlobs, dstTags, oplog, replays, blob_gets>>

VARIABLES
    \* ---- hub2registry.py ----
    wk,             \* per worker thread: position and locals of process_image
    next_task,      \* index of the next reference the pool hands out
    futures,        \* per reference: pending, running, ok, or the error raised
    results,        \* main(): references appended to results
    errors,         \* main(): references appended to errors
    main_pc,        \* main(): collecting futures, or past the summary
    DOWNLOADED,     \* the shared set of digests
    fs,             \* output directory: path -> inode
    inodes,         \* inode -> bytes
    links,          \* repository link files: path -> digest written
    file_writes,    \* per digest: temporary files opened by stream_download_blob
    mismatched,     \* digests whose streamed hash differed from the digest
    out_at_start    \* blob paths the output directory held when main() began

seedVars ==
    <<wk, next_task, futures, results, errors, main_pc, DOWNLOADED, fs, inodes,
      links, file_writes, mismatched, out_at_start>>

VARIABLES
    \* ---- hub2registry.py: one call of _with_retry ----
    rpc,            \* position: idle, call, sleep, returned, raised
    attempt,        \* the loop variable i
    last,           \* the local variable last (None, or the error kept)
    calls,          \* what each invocation of fn() did, in order
    delays,         \* the time.sleep delays, in order
    outcome         \* None, the value returned, or the error raised

retryVars == <<rpc, attempt, last, calls, delays, outcome>>

VARIABLES
    \* ---- hub2registry.py: fetch_manifest and the process_image around it ----
    fpc,            \* position: idle, get, index, get_picked, loaded, done, failed
    hub,            \* what Docker Hub answers the GET of manifests/{ref} with
    resp_ct,        \* the local variable ct
    resp_body,      \* the local variable body
    picked,         \* the local variable picked
    fetch_error,    \* the exception process_image ends with, or None
    fetched,        \* digests of the blobs process_image wrote
    repo_links      \* link files map_repository wrote: path -> digest

fetchVars == <<fpc, hub, resp_ct, resp_body, picked, fetch_error, fetched, repo_links>>

VARIABLES
    \* ---- hub2registry.py: one worker thread of the pool and its session ----
    thread_pc,      \* position: idle, take, fetch_manifest, blobs
    assigned,       \* the references the pool hands to this thread, in order
    cur,            \* index in assigned of the image being processed
    blob_k,         \* index of the blob the loop of process_image is at
    TLS_session,    \* TLS.session: <<>> (not set) or <<the session's headers>>
    http_sent       \* the requests sent: kind, repository, Authorization

sessVars == <<thread_pc, assigned, cur, blob_k, TLS_session, http_sent>>

vars == <<ddiffVars, seedVars, retryVars, fetchVars, sessVars>>

(***************************************************************************)
(* ddiff.py: pure helpers.                                                 *)
(***************************************************************************)
\* _prepare_tag
prepare_tag(tag) ==
    LET flat == IF ddiff_disable_repository THEN replace(tag, "/", "-") ELSE tag
    IN  IF \E i \in 1..Len(flat) : flat[i] = ":"
        THEN flat
        ELSE flat \o <<":", "latest">>

\* tag.split(":")[0]
repo_of(tag) == split(tag, ":")[1]

\* A validation that rejects indexes only.
validate_manifest_media_type_lists_only(manifest) ==
    manifest.mediaType \notin {DOCKER_MANIFEST_LIST_V2, OCI_INDEX_V1}

\* _validate_manifest_media_type: TRUE when it returns, FALSE when it raises.
validate_manifest_media_type(manifest) ==
    LET media_type == manifest.mediaType
    IN  /\ media_type \notin {DOCKER_MANIFEST_LIST_V2, OCI_INDEX_V1}
        /\ ~(media_type # <<>> /\ media_type \notin SUPPORTED_MANIFEST_TYPES)

\* _parse_blob_list: config digest, then the layer digests in order.
parse_blob_list(manifest) == manifest.config \o manifest.layers

\* The digest syntax check of _download_blob:
\* ^[a-z0-9_+.-]+:[a-fA-F0-9]+$
AlgorithmTokens == {"sha256", "sha512"}
HexTokens == {"aa", "bb", "cc", "dd", "ee", "01", "02", "04", "09", "99"}
digest_syntax_ok(digest) ==
    /\ Len(digest) >= 3
    /\ digest[1] \in AlgorithmTokens
    /\ digest[2] = ":"
    /\ \A i \in 3..Len(digest) : digest[i] \in HexTokens

\* The name _download_blob stores a blob under, relative to .ddiff-image.
download_blob_name(digest) == <<"blobs", "/">> \o digest \o <<".tar">>

\* A replay that looks the blob up under the bare digest.
upload_blob_name_bare(digest) == <<"blobs", "/">> \o digest

\* The name _upload_blob reads a blob from, relative to .ddiff-image.
upload_blob_name(digest) == <<"blobs", "/">> \o digest \o <<".tar">>

\* The difference taken the wrong way round.
exclusive_blobs_swapped(base_blobs, target_blobs) ==
    ToSet(base_blobs) \ ToSet(target_blobs)

\* diff_blobs = set(target_blobs) - set(base_blobs)
exclusive_blobs(base_blobs, target_blobs) ==
    ToSet(target_blobs) \ ToSet(base_blobs)

\* set(target_blobs) - diff_blobs, written to MOUNT_BLOBS
mountable_blobs(target_blobs, diff) == ToSet(target_blobs) \ diff

(***************************************************************************)
(* ddiff.py: diff_image.                                                   *)
(***************************************************************************)
\* What a call wrapped by _with_retry does: a response, or an exception of
\* requests (status 0: an HTTPError that carries no response).
NoError == [kind |-> "None", status |-> 0]

\* Neither diff_image nor load_image is running.
DiffIdle ==
    /\ dpc = "idle"
    /\ ddiff_disable_repository = FALSE
    /\ srcBase = None
    /\ srcTarget = None
    /\ srcContentType = <<>>
    /\ base_manifest = None
    /\ target_manifest = None
    /\ target_manifest_media_type = None
    /\ diff_blobs = {}
    /\ diff_order = <<>>
    /\ mount_list = <<>>
    /\ output_dir = None
    /\ archive = None
    /\ load_base_arg = None
    /\ input_dir = None
    /\ base_repo = None
    /\ target_tag = None
    /\ mount_blobs = <<>>
    /\ upload_blobs = <<>>
    /\ manifest_media_type = None
    /\ loop_idx = 0
    /\ dstBlobs = {}
    /\ dstTags = <<>>
    /\ oplog = <<>>
    /\ replays = 0
    /\ blob_gets = {}

\* No _with_retry call is under way.
RetryIdle ==
    /\ rpc = "idle"
    /\ attempt = 0
    /\ last = NoError
    /\ calls = <<>>
    /\ delays = <<>>
    /\ outcome = NoError

\* No fetch_manifest call is under way.
FetchIdle ==
    /\ fpc = "idle"
    /\ hub = <<>>
    /\ resp_ct = <<>>
    /\ resp_body = <<>>
    /\ picked = None
    /\ fetch_error = None
    /\ fetched = {}
    /\ repo_links = <<>>

\* No worker thread is followed.
SessIdle ==
    /\ thread_pc = "idle"
    /\ assigned = <<>>
    /\ cur = 0
    /\ blob_k = 0
    /\ TLS_session = <<>>
    /\ http_sent = {}

\* The Store Seeder is not running.
SeedIdle ==
    /\ wk = <<>>
    /\ next_task = 0
    /\ futures = <<>>
    /\ results = <<>>
    /\ errors = <<>>
    /\ main_pc = "idle"
    /\ DOWNLOADED = {}
    /\ fs = <<>>
    /\ inodes = <<>>
    /\ links = <<>>
    /\ file_writes = <<>>
    /\ mismatched = {}
    /\ out_at_start = {}

InitDiff ==
    /\ SeedIdle
    /\ RetryIdle
    /\ FetchIdle
    /\ SessIdle
    /\ dpc = "diff_image"
    /\ ddiff_disable_repository \in BOOLEAN
    /\ srcBase \in BaseManifests
    /\ srcTarget \in Manifests
    /\ srcContentType \in ContentTypeHeaders
    /\ base_manifest = None
    /\ target_manifest = None
    /\ target_manifest_media_type = None
    /\ diff_blobs = {}
    /\ diff_order = <<>>
    /\ mount_list = <<>>
    /\ output_dir = None
    /\ archive = None
    /\ load_base_arg = None
    /\ input_dir = None
    /\ base_repo = None
    /\ target_tag = None
    /\ mount_blobs = <<>>
    /\ upload_blobs = <<>>
    /\ manifest_media_type = None
    /\ loop_idx = 0
    /\ dstBlobs = {}
    /\ dstTags = <<>>
    /\ oplog = <<>>
    /\ replays = 0
    /\ blob_gets = {}

diffLocals ==
    <<base_manifest, target_manifest, target_manifest_media_type, diff_blobs,
      diff_order, mount_list>>
loadLocals ==
    <<load_base_arg, input_dir, base_repo, target_tag, mount_blobs,
      upload_blobs, manifest_media_type>>
registries == <<srcBase, srcTarget, srcContentType, dstBlobs, dstTags, oplog>>

\* push_images([base, target]); rmtree(output_dir); makedirs(blob_dir)
DiffPrepare ==
    /\ dpc = "diff_image"
    /\ output_dir' = NoFiles
    /\ dpc' = "request_base_manifest"
    /\ UNCHANGED <<seedVars, retryVars, fetchVars, sessVars, replays, blob_gets, ddiff_disable_repository, diffLocals, archive, loadLocals,
                   loop_idx, registries>>

\* base_manifest, _ = _request_manifest(base_tag): the body, or print_error.
RequestBaseManifest ==
    /\ dpc = "request_base_manifest"
    /\ \/ /\ base_manifest' = srcBase
          /\ dpc' = "request_target_manifest"
       \/ /\ dpc' = "diff_failed"
          /\ UNCHANGED base_manifest
    /\ UNCHANGED <<seedVars, retryVars, fetchVars, sessVars, replays, blob_gets, ddiff_disable_repository, target_manifest,
                   target_manifest_media_type, diff_blobs, diff_order,
                   mount_list, output_dir, archive, loadLocals, loop_idx,
                   registries>>

\* _request_manifest: content_type = (getheader("Content-Type") or "").split(";")[0]
content_type_of(header) == split(header, ";")[1]

RequestTargetManifest ==
    /\ dpc = "request_target_manifest"
    /\ \/ /\ target_manifest' = srcTarget
          /\ target_manifest_media_type' = content_type_of(srcContentType)
          /\ dpc' = "parse_blob_lists"
       \/ /\ dpc' = "diff_failed"
          /\ UNCHANGED <<target_manifest, target_manifest_media_type>>
    /\ UNCHANGED <<seedVars, retryVars, fetchVars, sessVars, replays, blob_gets, ddiff_disable_repository, base_manifest, diff_blobs,
                   diff_order, mount_list, output_dir, archive, loadLocals,
                   loop_idx, registries>>

\* base_blobs, target_blobs = _parse_blob_list(...); diff_blobs = ... ; either
\* _parse_blob_list raises on a rejected media type.
ParseBlobLists ==
    /\ dpc = "parse_blob_lists"
    /\ IF validate_manifest_media_type(base_manifest)
          /\ validate_manifest_media_type(target_manifest)
       THEN /\ diff_blobs' = exclusive_blobs(parse_blob_list(base_manifest),
                                             parse_blob_list(target_manifest))
            /\ diff_order' \in Orders(diff_blobs')
            /\ loop_idx' = 1
            /\ dpc' = "download_blobs"
       ELSE /\ dpc' = "diff_failed"
            /\ UNCHANGED <<diff_blobs, diff_order, loop_idx>>
    /\ UNCHANGED <<seedVars, retryVars, fetchVars, sessVars, replays, blob_gets, ddiff_disable_repository, base_manifest, target_manifest,
                   target_manifest_media_type, mount_list, output_dir, archive,
                   loadLocals, registries>>

\* One pass of  for digest in diff_blobs: _download_blob(target_repo, digest, blob_dir)
\* The syntax check raises before the request; the request may fail before the
\* file is opened; the copy may fail after it was (a truncated file is left).
DownloadBlob ==
    /\ dpc = "download_blobs"
    /\ loop_idx <= Len(diff_order)
    /\ LET digest == diff_order[loop_idx]
           name == download_blob_name(digest)
       IN  IF ~digest_syntax_ok(digest)
           THEN /\ dpc' = "diff_failed"
                /\ UNCHANGED <<output_dir, loop_idx, blob_gets>>
           ELSE /\ blob_gets' = blob_gets \cup {digest}
                /\ \/ /\ output_dir' = (name :> Body(digest)) @@ output_dir
                      /\ loop_idx' = loop_idx + 1
                      /\ UNCHANGED dpc
                   \/ /\ dpc' = "diff_failed"
                      /\ UNCHANGED <<output_dir, loop_idx>>
                   \/ /\ output_dir' = (name :> <<>>) @@ output_dir
                      /\ dpc' = "diff_failed"
                      /\ UNCHANGED loop_idx
    /\ UNCHANGED <<seedVars, retryVars, fetchVars, sessVars, replays, ddiff_disable_repository,
                   diffLocals, archive, loadLocals,
                   registries>>

\* The metadata files diff_image writes (lines 226-237).
metadata_files ==
    (<<"manifest.json">> :> target_manifest)
    @@ (<<"MANIFEST_MEDIA_TYPE">> :> target_manifest_media_type)
    @@ (<<"BASE">> :> prepare_tag(BaseTagInput))
    @@ (<<"TARGET">> :> prepare_tag(TargetTagInput))
    @@ (<<"UPLOAD_BLOBS">> :> join(diff_order, "|"))

\* Write back metadata, archive .ddiff-image, remove it.  MOUNT_BLOBS is
\* "|".join(list(set(target_blobs) - diff_blobs)), in any iteration order.
WriteBackAndArchive ==
    /\ dpc = "download_blobs"
    /\ loop_idx > Len(diff_order)
    /\ mount_list' \in
           Orders(mountable_blobs(parse_blob_list(target_manifest), diff_blobs))
    /\ archive' = (<<"MOUNT_BLOBS">> :> join(mount_list', "|"))
                  @@ metadata_files @@ output_dir
    /\ output_dir' = None
    /\ dpc' = "load_image"
    /\ UNCHANGED <<seedVars, retryVars, fetchVars, sessVars, replays, blob_gets, ddiff_disable_repository, base_manifest, target_manifest,
                   target_manifest_media_type, diff_blobs, diff_order,
                   loadLocals, loop_idx, registries>>

(***************************************************************************)
(* ddiff.py: load_image, replaying the archive against the destination     *)
(* registry.                                                               *)
(***************************************************************************)
\* An image the replaying host may hold under the base tag when it differs
\* from the base the package was built against.
StaleBase ==
    [mediaType |-> DOCKER_MANIFEST_V2, config |-> <<DigestA>>, layers |-> <<>>]

\* mount_blobs / upload_blobs = f.read().strip().split("|")
read_blob_list(text) == split(strip(text), "|")

\* A replay that ignores the recorded media type.
read_manifest_media_type_default(dir) == DOCKER_MANIFEST_V2

\* manifest_media_type = f.read().strip() or DOCKER_MANIFEST_V2, when the
\* file exists; DOCKER_MANIFEST_V2 otherwise.
read_manifest_media_type(dir) ==
    IF <<"MANIFEST_MEDIA_TYPE">> \in DOMAIN dir
    THEN IF strip(dir[<<"MANIFEST_MEDIA_TYPE">>]) # <<>>
         THEN strip(dir[<<"MANIFEST_MEDIA_TYPE">>])
         ELSE DOCKER_MANIFEST_V2
    ELSE DOCKER_MANIFEST_V2

\* Lines 248-274: extract, resolve the base reference, push the base image
\* the host holds, read the package's metadata.
LoadPrepare ==
    /\ dpc = "load_image"
    /\ \E arg \in {None, BaseTagInput}, local \in {srcBase, StaleBase} :
         LET base_tag == IF arg = None THEN strip(archive[<<"BASE">>]) ELSE arg
             pushed == prepare_tag(base_tag)
         IN  /\ load_base_arg' = arg
             /\ base_repo' = repo_of(base_tag)
             /\ dstBlobs' = dstBlobs \cup
                  {<<repo_of(pushed), d>> : d \in ToSet(parse_blob_list(local))}
             /\ dstTags' = (pushed :> [manifest |-> local,
                                       mediaType |-> local.mediaType]) @@ dstTags
    /\ input_dir' = archive
    /\ target_tag' = strip(archive[<<"TARGET">>])
    /\ mount_blobs' = read_blob_list(archive[<<"MOUNT_BLOBS">>])
    /\ upload_blobs' = read_blob_list(archive[<<"UPLOAD_BLOBS">>])
    /\ manifest_media_type' = read_manifest_media_type(archive)
    /\ loop_idx' = 1
    /\ oplog' = <<>>
    /\ replays' = replays + 1
    /\ dpc' = "cross_mount"
    /\ UNCHANGED <<seedVars, retryVars, fetchVars, sessVars, blob_gets, ddiff_disable_repository,
                   diffLocals, output_dir, archive, srcBase, srcTarget,
                   srcContentType>>

\* A mount loop that takes a 202 for an answer and goes on.
CrossMount_fallback ==
    /\ dpc = "cross_mount"
    /\ loop_idx <= Len(mount_blobs)
    /\ LET blob == mount_blobs[loop_idx]
           target_repo == repo_of(target_tag)
           request == [op |-> "mount", repo |-> target_repo,
                       from |-> base_repo, digest |-> blob]
       IN  /\ oplog' = Append(oplog, request)
           /\ \/ /\ <<base_repo, blob>> \in dstBlobs
                 /\ dstBlobs' = dstBlobs \cup {<<target_repo, blob>>}
                 /\ loop_idx' = loop_idx + 1
                 /\ UNCHANGED dpc
              \/ /\ <<base_repo, blob>> \notin dstBlobs
                 /\ loop_idx' = loop_idx + 1
                 /\ UNCHANGED <<dstBlobs, dpc>>
              \/ /\ dpc' = "load_failed"
                 /\ UNCHANGED <<dstBlobs, loop_idx>>
    /\ UNCHANGED <<seedVars, retryVars, fetchVars, sessVars, replays, blob_gets, ddiff_disable_repository, diffLocals, output_dir, archive,
                   loadLocals, srcBase, srcTarget, srcContentType, dstTags>>

\* One pass of  for blob in mount_blobs: _cross_mount(target_repo, base_repo, blob)
\* The registry answers 201 when the from-repository holds the blob and 202
\* (an upload session) when it does not; 202 and HTTP errors raise.
CrossMount ==
    /\ dpc = "cross_mount"
    /\ loop_idx <= Len(mount_blobs)
    /\ LET blob == mount_blobs[loop_idx]
           target_repo == repo_of(target_tag)
           request == [op |-> "mount", repo |-> target_repo,
                       from |-> base_repo, digest |-> blob]
       IN  /\ oplog' = Append(oplog, request)
           /\ \/ /\ <<base_repo, blob>> \in dstBlobs
                 /\ dstBlobs' = dstBlobs \cup {<<target_repo, blob>>}
                 /\ loop_idx' = loop_idx + 1
                 /\ UNCHANGED dpc
              \/ /\ <<base_repo, blob>> \notin dstBlobs
                 /\ dpc' = "load_failed"
                 /\ UNCHANGED <<dstBlobs, loop_idx>>
              \/ /\ dpc' = "load_failed"
                 /\ UNCHANGED <<dstBlobs, loop_idx>>
    /\ UNCHANGED <<seedVars, retryVars, fetchVars, sessVars, replays, blob_gets, ddiff_disable_repository, diffLocals, output_dir, archive,
                   loadLocals, srcBase, srcTarget, srcContentType, dstTags>>

\* An upload loop that starts while mounts are still outstanding.
StartUploads_early ==
    /\ dpc = "cross_mount"
    /\ loop_idx' = 1
    /\ dpc' = "upload_blobs"
    /\ UNCHANGED <<seedVars, retryVars, fetchVars, sessVars, replays, blob_gets, ddiff_disable_repository, diffLocals, output_dir, archive,
                   loadLocals, registries>>

\* The mount loop is over: blob_dir = ...; the upload loop starts.
StartUploads ==
    /\ dpc = "cross_mount"
    /\ loop_idx > Len(mount_blobs)
    /\ loop_idx' = 1
    /\ dpc' = "upload_blobs"
    /\ UNCHANGED <<seedVars, retryVars, fetchVars, sessVars, replays, blob_gets, ddiff_disable_repository, diffLocals, output_dir, archive,
                   loadLocals, registries>>

\* An upload loop that goes on after a PUT the registry refused.
UploadBlob_continue ==
    /\ dpc = "upload_blobs"
    /\ loop_idx <= Len(upload_blobs)
    /\ LET blob == upload_blobs[loop_idx]
           target_repo == repo_of(target_tag)
           name == upload_blob_name(blob)
           session == [op |-> "upload_session", repo |-> target_repo,
                       from |-> None, digest |-> blob]
           put == [op |-> "upload", repo |-> target_repo,
                   from |-> None, digest |-> blob]
       IN  \/ /\ oplog' = Append(oplog, session)
              /\ dpc' = "load_failed"
              /\ UNCHANGED <<dstBlobs, loop_idx>>
           \/ /\ name \notin DOMAIN input_dir
              /\ oplog' = Append(oplog, session)
              /\ dpc' = "load_failed"
              /\ UNCHANGED <<dstBlobs, loop_idx>>
           \/ /\ name \in DOMAIN input_dir
              /\ oplog' = oplog \o <<session, put>>
              /\ \/ /\ sha256(input_dir[name]) = blob
                    /\ dstBlobs' = dstBlobs \cup {<<target_repo, blob>>}
                    /\ loop_idx' = loop_idx + 1
                    /\ UNCHANGED dpc
                 \/ /\ loop_idx' = loop_idx + 1
                    /\ UNCHANGED <<dstBlobs, dpc>>
    /\ UNCHANGED <<seedVars, retryVars, fetchVars, sessVars, replays, blob_gets, ddiff_disable_repository, diffLocals, output_dir, archive,
                   loadLocals, srcBase, srcTarget, srcContentType, dstTags>>

\* One pass of  for blob in upload_blobs: _upload_blob(target_repo, blob, blob_dir)
\* The session POST may fail; open() raises when the file is missing; the
\* registry accepts the PUT only when the bytes hash to the digest.
UploadBlob ==
    /\ dpc = "upload_blobs"
    /\ loop_idx <= Len(upload_blobs)
    /\ LET blob == upload_blobs[loop_idx]
           target_repo == repo_of(target_tag)
           name == upload_blob_name(blob)
           session == [op |-> "upload_session", repo |-> target_repo,
                       from |-> None, digest |-> blob]
           put == [op |-> "upload", repo |-> target_repo,
                   from |-> None, digest |-> blob]
       IN  \/ /\ oplog' = Append(oplog, session)
              /\ dpc' = "load_failed"
              /\ UNCHANGED <<dstBlobs, loop_idx>>
           \/ /\ name \notin DOMAIN input_dir
              /\ oplog' = Append(oplog, session)
              /\ dpc' = "load_failed"
              /\ UNCHANGED <<dstBlobs, loop_idx>>
           \/ /\ name \in DOMAIN input_dir
              /\ oplog' = oplog \o <<session, put>>
              /\ \/ /\ sha256(input_dir[name]) = blob
                    /\ dstBlobs' = dstBlobs \cup {<<target_repo, blob>>}
                    /\ loop_idx' = loop_idx + 1
                    /\ UNCHANGED dpc
                 \/ /\ dpc' = "load_failed"
                    /\ UNCHANGED <<dstBlobs, loop_idx>>
    /\ UNCHANGED <<seedVars, retryVars, fetchVars, sessVars, replays, blob_gets, ddiff_disable_repository, diffLocals, output_dir, archive,
                   loadLocals, srcBase, srcTarget, srcContentType, dstTags>>

\* _upload_manifest called without the recorded media type (its default).
UploadManifest_untyped ==
    /\ dpc = "upload_blobs"
    /\ loop_idx > Len(upload_blobs)
    /\ LET data == input_dir[<<"manifest.json">>]
           request == [op |-> "put_manifest", repo |-> repo_of(target_tag),
                       from |-> None, digest |-> None]
       IN  /\ oplog' = Append(oplog, request)
           /\ \/ /\ dstTags' = (target_tag :>
                                  [manifest |-> data,
                                   mediaType |-> DOCKER_MANIFEST_V2]) @@ dstTags
                 /\ dpc' = "load_cleanup"
              \/ /\ dpc' = "load_failed"
                 /\ UNCHANGED dstTags
    /\ UNCHANGED <<seedVars, retryVars, fetchVars, sessVars, replays, blob_gets, ddiff_disable_repository, diffLocals, output_dir, archive,
                   loadLocals, loop_idx, srcBase, srcTarget, srcContentType,
                   dstBlobs>>

\* _upload_manifest(target_tag, ".ddiff-image/manifest.json", manifest_media_type)
UploadManifest ==
    /\ dpc = "upload_blobs"
    /\ loop_idx > Len(upload_blobs)
    /\ LET data == input_dir[<<"manifest.json">>]
           request == [op |-> "put_manifest", repo |-> repo_of(target_tag),
                       from |-> None, digest |-> None]
       IN  /\ oplog' = Append(oplog, request)
           /\ \/ /\ dstTags' = (target_tag :>
                                  [manifest |-> data,
                                   mediaType |-> manifest_media_type]) @@ dstTags
                 /\ dpc' = "load_cleanup"
              \/ /\ dpc' = "load_failed"
                 /\ UNCHANGED dstTags
    /\ UNCHANGED <<seedVars, retryVars, fetchVars, sessVars, replays, blob_gets, ddiff_disable_repository, diffLocals, output_dir, archive,
                   loadLocals, loop_idx, srcBase, srcTarget, srcContentType,
                   dstBlobs>>

\* shutil.rmtree(input_dir)
LoadCleanup ==
    /\ dpc = "load_cleanup"
    /\ input_dir' = None
    /\ dpc' = "load_done"
    /\ UNCHANGED <<seedVars, retryVars, fetchVars, sessVars, replays, blob_gets, ddiff_disable_repository, diffLocals, output_dir, archive,
                   load_base_arg, base_repo, target_tag, mount_blobs,
                   upload_blobs, manifest_media_type, loop_idx, registries>>

\* ddiff load is run on the same package again, after a replay that
\* completed.
LoadAgain ==
    /\ dpc = "load_done"
    /\ replays < MaxReplays
    /\ dpc' = "load_image"
    /\ UNCHANGED <<seedVars, retryVars, fetchVars, sessVars, replays, blob_gets,
                   ddiff_disable_repository, diffLocals, output_dir, archive,
                   loadLocals, loop_idx, registries>>

NextDiff ==
    \/ DiffPrepare
    \/ RequestBaseManifest
    \/ RequestTargetManifest
    \/ ParseBlobLists
    \/ DownloadBlob
    \/ WriteBackAndArchive
    \/ LoadPrepare
    \/ CrossMount
    \/ StartUploads
    \/ UploadBlob
    \/ UploadManifest
    \/ LoadCleanup
    \/ LoadAgain

SpecDiff == InitDiff /\ [][NextDiff]_vars

(***************************************************************************)
(* Claims about the diff / pack / replay pipeline (checked under SpecDiff) *)
(***************************************************************************)
TargetBlobSet == ToSet(parse_blob_list(srcTarget))
BaseBlobSet == ToSet(parse_blob_list(srcBase))
Packed == archive # None

OpRank(op) ==
    CASE op = "mount" -> 1
      [] op = "upload_session" -> 2
      [] op = "upload" -> 2
      [] op = "put_manifest" -> 3

Sent(op, digest) ==
    \E i \in 1..Len(oplog) : oplog[i].op = op /\ oplog[i].digest = digest
PutIssued == \E i \in 1..Len(oplog) : oplog[i].op = "put_manifest"
BlobFiles(dir) == {n \in DOMAIN dir : n[1] = "blobs"}

\* C1: the exclusive set and the mountable set diff_image computes are
\* disjoint, their union is the target manifest's blob set, exclusive is
\* target minus base and mountable is target intersected with base.
C1_Partition ==
    /\ dpc \notin {"diff_image", "request_base_manifest",
                   "request_target_manifest", "parse_blob_lists", "diff_failed"}
         => diff_blobs = TargetBlobSet \ BaseBlobSet
    /\ Packed =>
         /\ diff_blobs \cap ToSet(mount_list) = {}
         /\ diff_blobs \cup ToSet(mount_list) = TargetBlobSet
         /\ ToSet(mount_list) = TargetBlobSet \cap BaseBlobSet

\* C1 witness: a package whose target shares a blob with the base, adds one
\* of its own, and whose base holds a blob the target lacks.
C1_Witness ==
    /\ Packed
    /\ diff_blobs # {}
    /\ mount_list # <<>>
    /\ BaseBlobSet \ TargetBlobSet # {}

\* C2: load_image sends every cross-mount before every upload and the
\* manifest PUT last, and when the PUT is sent every blob of the target
\* manifest is in the target repository: mountable ones by a mount,
\* exclusive ones by an upload.
C2_MountsUploadsThenManifest ==
    /\ \A i, j \in 1..Len(oplog) :
         i < j => /\ OpRank(oplog[i].op) <= OpRank(oplog[j].op)
                  /\ oplog[i].op # "put_manifest"
    /\ PutIssued =>
         \A d \in ToSet(parse_blob_list(archive[<<"manifest.json">>])) :
            /\ <<repo_of(target_tag), d>> \in dstBlobs
            /\ d \in ToSet(mount_list) => Sent("mount", d)
            /\ d \in diff_blobs => Sent("upload", d)

\* C2 witness: a finished replay that mounted two blobs and uploaded one.
C2_Witness ==
    /\ dpc = "load_done"
    /\ Cardinality(ToSet(mount_list)) = 2
    /\ diff_blobs # {}
    /\ PutIssued
    /\ target_tag \in DOMAIN dstTags

\* C3: an emitted archive holds exactly one blob file per exclusive digest
\* and none for another digest, and load_image reads each exclusive digest
\* from the name diff_image stored it under.
C3_PackageSelfContained ==
    Packed =>
        /\ BlobFiles(archive) = {download_blob_name(d) : d \in diff_blobs}
        /\ Cardinality(BlobFiles(archive)) = Cardinality(diff_blobs)
        /\ \A d \in diff_blobs :
              /\ upload_blob_name(d) \in DOMAIN archive
              /\ archive[upload_blob_name(d)] = Body(d)

\* C3 witness: a replay that uploaded, from the package, both blobs of a
\* two-blob exclusive set.
C3_Witness ==
    /\ Packed
    /\ Cardinality(diff_blobs) = 2
    /\ \A d \in diff_blobs : Sent("upload", d) /\ <<repo_of(target_tag), d>> \in dstBlobs

C5_PartitionPersistedVerbatim ==
    dpc \in {"cross_mount", "upload_blobs", "load_cleanup", "load_done",
             "load_failed"} =>
        /\ ToSet(mount_blobs) = ToSet(mount_list)
        /\ ToSet(upload_blobs) = diff_blobs

(***************************************************************************)
(* hub2registry.py: the Store Seeder.                                      *)
(***************************************************************************)
\* The worker threads of the pool (--workers).
Workers == {"w1", "w2"}

\* The parsed references, in the order main() submits them: two images of
\* different repositories that share a config blob, and a second tag of the
\* first image (the same manifest, so the same manifest digest).
refs ==
    << [repo |-> <<"org", "/", "app1">>, tag |-> "latest"],
       [repo |-> <<"org", "/", "app2">>, tag |-> "latest"],
       [repo |-> <<"org", "/", "app1">>, tag |-> "v1"] >>
Tasks == 1..Len(refs)

\* What Docker Hub serves: the manifest digest each reference resolves to,
\* and json.loads of the manifest bytes.
HubManifestDigest(ref) ==
    IF ref.repo = <<"org", "/", "app2">> THEN ManifestDigest2 ELSE ManifestDigest1

ManifestJson(md) ==
    IF md = ManifestDigest1
    THEN [config |-> DigestA, layers |-> <<DigestB>>]
    ELSE [config |-> DigestA, layers |-> <<>>]

\* A body whose last chunk arrives corrupted.
CorruptBody(d) ==
    [k \in 1..BlobChunks |-> IF k = BlobChunks THEN <<OtherDigest, k>> ELSE <<d, k>>]

\* Bytes a file has where nothing was written (a hole).
Hole == <<OtherDigest, 0>>

\* blob_file_path, relative to <out>/docker/registry/v2:
\* blobs/<algo>/<hexd[:2]>/<hexd>/data
blob_file_path(digest) ==
    <<"blobs", digest[1], digest[3]>> \o SubSeq(digest, 3, Len(digest))
        \o <<"data">>

\* tmp = dest_path + ".part"
part_path(dest) == dest \o <<".part">>

\* The blobs process_image downloads for a manifest: [cfg] + layers
required_blobs(man) == <<man.config>> \o man.layers

\* hexd = digest.split(":", 1)[1]
hex_of(digest) == SubSeq(digest, 3, Len(digest))

\* os.path.join(*segments): the path made of the segments' components.
RECURSIVE path_join(_)
path_join(segments) ==
    IF segments = <<>> THEN <<>>
    ELSE segments[1] \o path_join(Tail(segments))

\* map_repository: the link files of one image and the digest in each.
repository_links(ref, mdgst, man) ==
    LET repo_root == <<"repositories">> \o path_join(split(ref.repo, "/"))
        layer_link(dg) ==
            repo_root \o <<"_layers", "sha256">> \o hex_of(dg) \o <<"link">>
        rev_link ==
            repo_root \o <<"_manifests", "revisions", "sha256">>
                \o hex_of(mdgst) \o <<"link">>
        idx_link ==
            repo_root \o <<"_manifests", "tags", ref.tag, "index", "sha256">>
                \o hex_of(mdgst) \o <<"link">>
        cur_link ==
            repo_root \o <<"_manifests", "tags", ref.tag, "current", "link">>
        blobs == ToSet(required_blobs(man))
    IN  [path \in {layer_link(dg) : dg \in blobs} \cup {rev_link, idx_link, cur_link}
            |-> IF \E dg \in blobs : path = layer_link(dg)
                THEN CHOOSE dg \in blobs : path = layer_link(dg)
                ELSE mdgst]

(***************************************************************************)
(* The file system of the output directory.                                *)
(***************************************************************************)
\* The inode number a newly created file gets.
NewInode ==
    CHOOSE i \in 1..(Cardinality(DOMAIN inodes) + 1) : i \notin DOMAIN inodes

\* Inodes no path and no open file refers to are freed.
Referenced(files, workers) ==
    {files[path] : path \in DOMAIN files} \cup {workers[w].fd : w \in Workers}
FreeUnreferenced(files, nodes, workers) ==
    [i \in DOMAIN nodes \cap Referenced(files, workers) |-> nodes[i]]

\* open(path, "wb"): the inode opened (an existing file is truncated).
opened_inode(path) == IF path \in DOMAIN fs THEN fs[path] ELSE NewInode

\* f.write(chunk) at offset off of an inode's bytes.
written(bytes, off, chunk) ==
    [i \in 1..(IF Len(bytes) > off + 1 THEN Len(bytes) ELSE off + 1) |->
        IF i = off + 1 THEN chunk
        ELSE IF i <= Len(bytes) THEN bytes[i]
        ELSE Hole]

\* os.replace(tmp, dest) / os.remove(path) on the path table
replaced(tmp, dest) ==
    [path \in (DOMAIN fs \ {tmp}) \cup {dest} |->
        IF path = dest THEN fs[tmp] ELSE fs[path]]
removed(path) == [q \in DOMAIN fs \ {path} |-> fs[q]]

IdleWorker ==
    [pc |-> "idle", task |-> 0, k |-> 0, fd |-> 0, h |-> <<>>, stream |-> <<>>]

InitSeed ==
    /\ RetryIdle
    /\ DiffIdle
    /\ FetchIdle
    /\ SessIdle
    /\ wk = [w \in Workers |-> IdleWorker]
    /\ next_task = 1
    /\ futures = [i \in Tasks |-> "pending"]
    /\ results = <<>>
    /\ errors = <<>>
    /\ main_pc = "collect"
    /\ DOWNLOADED = {}
    \* The output directory is empty, or holds the shared config blob from
    \* an earlier run.
    /\ \/ fs = <<>> /\ inodes = <<>>
       \/ /\ fs = (blob_file_path(DigestA) :> 1)
          /\ inodes = (1 :> Body(DigestA))
    /\ links = <<>>
    /\ file_writes = [d \in Digests |-> 0]
    /\ mismatched = {}
    /\ out_at_start = DOMAIN fs

(***************************************************************************)
(* process_image, one thread w of the pool.                                *)
(***************************************************************************)
Ref(w) == refs[wk[w].task]
\* mdgst = "sha256:" + sha256_hex_of_bytes(man_bytes)
Mdgst(w) == sha256(ManifestBytes(HubManifestDigest(Ref(w))))
Man(w) == ManifestJson(HubManifestDigest(Ref(w)))
Dg(w) == required_blobs(Man(w))[wk[w].k]

mainVars == <<results, errors, main_pc>>

\* The pool hands the next submitted reference to a free thread.
StartTask(w) ==
    /\ wk[w].pc = "idle"
    /\ next_task <= Len(refs)
    /\ wk' = [wk EXCEPT ![w].pc = "fetch_manifest", ![w].task = next_task]
    /\ futures' = [futures EXCEPT ![next_task] = "running"]
    /\ next_task' = next_task + 1
    /\ UNCHANGED <<ddiffVars, retryVars, fetchVars, sessVars, out_at_start, mainVars, DOWNLOADED, fs, inodes, links,
                   file_writes, mismatched>>

\* process_image raises: the future holds the error, the thread is free.
Raised(w, error) ==
    /\ futures' = [futures EXCEPT ![wk[w].task] = error]
    /\ wk' = [wk EXCEPT ![w] = IdleWorker]

\* man_bytes, man, mct = fetch_manifest(repo, tag): the manifest, or an error.
FetchManifest(w) ==
    /\ wk[w].pc = "fetch_manifest"
    /\ \/ /\ wk' = [wk EXCEPT ![w].pc = "manifest_exists"]
          /\ UNCHANGED futures
       \/ Raised(w, "RegistryError")
    /\ UNCHANGED <<ddiffVars, retryVars, fetchVars, sessVars, out_at_start, mainVars, next_task, DOWNLOADED, fs, inodes,
                   links, file_writes, mismatched>>

\* if not os.path.exists(m_dest):
ManifestExists(w) ==
    /\ wk[w].pc = "manifest_exists"
    /\ wk' = [wk EXCEPT
                ![w].pc = IF blob_file_path(Mdgst(w)) \in DOMAIN fs
                          THEN "blob_loop" ELSE "manifest_open",
                ![w].k = 1]
    /\ UNCHANGED <<ddiffVars, retryVars, fetchVars, sessVars, out_at_start, mainVars, next_task, futures, DOWNLOADED, fs,
                   inodes, links, file_writes, mismatched>>

\* tmp = m_dest + ".part"; open(tmp, "wb")
ManifestOpen(w) ==
    /\ wk[w].pc = "manifest_open"
    /\ LET tmp == part_path(blob_file_path(Mdgst(w)))
           ino == opened_inode(tmp)
       IN  /\ fs' = (tmp :> ino) @@ fs
           /\ inodes' = (ino :> <<>>) @@ inodes
           /\ wk' = [wk EXCEPT ![w].pc = "manifest_write", ![w].fd = ino]
    /\ UNCHANGED <<ddiffVars, retryVars, fetchVars, sessVars, out_at_start, mainVars, next_task, futures, DOWNLOADED, links,
                   file_writes, mismatched>>

\* f.write(man_bytes), and the file is closed
ManifestWrite(w) ==
    /\ wk[w].pc = "manifest_write"
    /\ wk' = [wk EXCEPT ![w].pc = "manifest_verify", ![w].fd = 0]
    /\ inodes' = FreeUnreferenced(fs,
                    [inodes EXCEPT ![wk[w].fd] =
                        written(@, 0, ManifestBytes(Mdgst(w))[1])],
                    wk')
    /\ UNCHANGED <<ddiffVars, retryVars, fetchVars, sessVars, out_at_start, mainVars, next_task, futures, DOWNLOADED, fs,
                   links, file_writes, mismatched>>

\* open(tmp, "rb"); got = sha256_hex_of_file(f); if got != mdhex: ...
ManifestVerify(w) ==
    /\ wk[w].pc = "manifest_verify"
    /\ LET tmp == part_path(blob_file_path(Mdgst(w)))
       IN  IF tmp \notin DOMAIN fs
           THEN Raised(w, "FileNotFoundError")
           ELSE /\ wk' = [wk EXCEPT
                            ![w].pc = IF sha256(inodes[fs[tmp]]) # Mdgst(w)
                                      THEN "manifest_remove"
                                      ELSE "manifest_replace"]
                /\ UNCHANGED futures
    /\ UNCHANGED <<ddiffVars, retryVars, fetchVars, sessVars, out_at_start, mainVars, next_task, DOWNLOADED, fs, inodes,
                   links, file_writes, mismatched>>

\* os.remove(tmp); raise RuntimeError("Manifest blob sha mismatch ...")
ManifestRemove(w) ==
    /\ wk[w].pc = "manifest_remove"
    /\ LET tmp == part_path(blob_file_path(Mdgst(w)))
       IN  IF tmp \notin DOMAIN fs
           THEN /\ Raised(w, "FileNotFoundError")
                /\ UNCHANGED <<fs, inodes>>
           ELSE /\ Raised(w, "Manifest blob sha mismatch")
                /\ fs' = removed(tmp)
                /\ inodes' = FreeUnreferenced(fs', inodes, wk')
    /\ UNCHANGED <<ddiffVars, retryVars, fetchVars, sessVars, out_at_start, mainVars, next_task, DOWNLOADED, links,
                   file_writes, mismatched>>

\* os.replace(tmp, m_dest)
ManifestReplace(w) ==
    /\ wk[w].pc = "manifest_replace"
    /\ LET dest == blob_file_path(Mdgst(w))
           tmp == part_path(dest)
       IN  IF tmp \notin DOMAIN fs
           THEN /\ Raised(w, "FileNotFoundError")
                /\ UNCHANGED <<fs, inodes>>
           ELSE /\ wk' = [wk EXCEPT ![w].pc = "manifest_mark"]
                /\ fs' = replaced(tmp, dest)
                /\ inodes' = FreeUnreferenced(fs', inodes, wk')
                /\ UNCHANGED futures
    /\ UNCHANGED <<ddiffVars, retryVars, fetchVars, sessVars, out_at_start, mainVars, next_task, DOWNLOADED, links,
                   file_writes, mismatched>>

\* with DOWNLOADED_LOCK: DOWNLOADED.add(mdgst)
ManifestMark(w) ==
    /\ wk[w].pc = "manifest_mark"
    /\ DOWNLOADED' = DOWNLOADED \cup {Mdgst(w)}
    /\ wk' = [wk EXCEPT ![w].pc = "blob_loop"]
    /\ UNCHANGED <<ddiffVars, retryVars, fetchVars, sessVars, out_at_start, mainVars, next_task, futures, fs, inodes, links,
                   file_writes, mismatched>>

\* for dg in [cfg] + layers: if os.path.exists(dest): ... else
\* stream_download_blob(repo, dg, dest); after the loop, map_repository.
BlobLoop(w) ==
    /\ wk[w].pc = "blob_loop"
    /\ wk[w].k <= Len(required_blobs(Man(w)))
    /\ wk' = [wk EXCEPT
                ![w].pc = IF blob_file_path(Dg(w)) \in DOMAIN fs
                          THEN "blob_mark_existing" ELSE "sdb_exists"]
    /\ UNCHANGED <<ddiffVars, retryVars, fetchVars, sessVars, out_at_start, mainVars, next_task, futures, DOWNLOADED, fs,
                   inodes, links, file_writes, mismatched>>

\* with DOWNLOADED_LOCK: DOWNLOADED.add(dg); continue     (lines 279-281)
BlobMarkExisting(w) ==
    /\ wk[w].pc = "blob_mark_existing"
    /\ DOWNLOADED' = DOWNLOADED \cup {Dg(w)}
    /\ wk' = [wk EXCEPT ![w].pc = "blob_loop", ![w].k = @ + 1]
    /\ UNCHANGED <<ddiffVars, retryVars, fetchVars, sessVars, out_at_start, mainVars, next_task, futures, fs, inodes, links,
                   file_writes, mismatched>>

\* stream_download_blob: if os.path.exists(dest_path):     (line 176)
SdbExists(w) ==
    /\ wk[w].pc = "sdb_exists"
    /\ wk' = [wk EXCEPT
                ![w].pc = IF blob_file_path(Dg(w)) \in DOMAIN fs
                          THEN "sdb_mark_existing" ELSE "sdb_lock"]
    /\ UNCHANGED <<ddiffVars, retryVars, fetchVars, sessVars, out_at_start, mainVars, next_task, futures, DOWNLOADED, fs,
                   inodes, links, file_writes, mismatched>>

\* with DOWNLOADED_LOCK: DOWNLOADED.add(digest); return    (lines 177-179)
SdbMarkExisting(w) ==
    /\ wk[w].pc = "sdb_mark_existing"
    /\ DOWNLOADED' = DOWNLOADED \cup {Dg(w)}
    /\ wk' = [wk EXCEPT ![w].pc = "blob_loop", ![w].k = @ + 1]
    /\ UNCHANGED <<ddiffVars, retryVars, fetchVars, sessVars, out_at_start, mainVars, next_task, futures, fs, inodes, links,
                   file_writes, mismatched>>

\* The in-memory check left out: every caller marks the digest and downloads.
SdbLock_unchecked(w) ==
    /\ wk[w].pc = "sdb_lock"
    /\ DOWNLOADED' = DOWNLOADED \cup {Dg(w)}
    /\ wk' = [wk EXCEPT ![w].pc = "sdb_get"]
    /\ UNCHANGED <<ddiffVars, retryVars, fetchVars, sessVars, out_at_start, mainVars, next_task, futures, fs,
                   inodes, links, file_writes, mismatched>>

\* with DOWNLOADED_LOCK: if digest in DOWNLOADED: return; DOWNLOADED.add(digest)
SdbLock(w) ==
    /\ wk[w].pc = "sdb_lock"
    /\ IF Dg(w) \in DOWNLOADED
       THEN /\ wk' = [wk EXCEPT ![w].pc = "blob_loop", ![w].k = @ + 1]
            /\ UNCHANGED DOWNLOADED
       ELSE /\ DOWNLOADED' = DOWNLOADED \cup {Dg(w)}
            /\ wk' = [wk EXCEPT ![w].pc = "sdb_get"]
    /\ UNCHANGED <<ddiffVars, retryVars, fetchVars, sessVars, out_at_start, mainVars, next_task, futures, fs, inodes, links,
                   file_writes, mismatched>>

\* with _with_retry(_get_stream) as r: the response whose body will stream
\* (intact or corrupted), or the error _with_retry raises.
SdbGet(w) ==
    /\ wk[w].pc = "sdb_get"
    /\ \/ /\ \E body \in {Body(Dg(w)), CorruptBody(Dg(w))} :
               wk' = [wk EXCEPT ![w].pc = "sdb_open", ![w].stream = body]
          /\ UNCHANGED futures
       \/ Raised(w, "RegistryError")
    /\ UNCHANGED <<ddiffVars, retryVars, fetchVars, sessVars, out_at_start, mainVars, next_task, DOWNLOADED, fs, inodes,
                   links, file_writes, mismatched>>

\* h = hashlib.sha256(); tmp = dest_path + ".part"; open(tmp, "wb")
SdbOpen(w) ==
    /\ wk[w].pc = "sdb_open"
    /\ LET tmp == part_path(blob_file_path(Dg(w)))
           ino == opened_inode(tmp)
       IN  /\ fs' = (tmp :> ino) @@ fs
           /\ inodes' = (ino :> <<>>) @@ inodes
           /\ wk' = [wk EXCEPT ![w].pc = "sdb_stream", ![w].fd = ino,
                               ![w].h = <<>>]
    /\ file_writes' = [file_writes EXCEPT ![Dg(w)] = @ + 1]
    /\ UNCHANGED <<ddiffVars, retryVars, fetchVars, sessVars, out_at_start, mainVars, next_task, futures, DOWNLOADED, links,
                   mismatched>>

\* for chunk in r.iter_content(...): h.update(chunk); f.write(chunk)
\* or the connection breaks and iter_content raises (the file is closed and
\* left behind).
SdbChunk(w) ==
    /\ wk[w].pc = "sdb_stream"
    /\ Len(wk[w].h) < Len(wk[w].stream)
    /\ \/ LET chunk == wk[w].stream[Len(wk[w].h) + 1]
          IN  /\ inodes' = [inodes EXCEPT ![wk[w].fd] =
                                written(@, Len(wk[w].h), chunk)]
              /\ wk' = [wk EXCEPT ![w].h = Append(@, chunk)]
              /\ UNCHANGED futures
       \/ /\ Raised(w, "ConnectionError")
          /\ inodes' = FreeUnreferenced(fs, inodes, wk')
    /\ UNCHANGED <<ddiffVars, retryVars, fetchVars, sessVars, out_at_start, mainVars, next_task, DOWNLOADED, fs, links,
                   file_writes, mismatched>>

\* The body is over and the file closed: got = h.hexdigest(); if got != hexd
SdbVerify(w) ==
    /\ wk[w].pc = "sdb_stream"
    /\ Len(wk[w].h) = Len(wk[w].stream)
    /\ wk' = [wk EXCEPT
                ![w].pc = IF hex_of(sha256(wk[w].h)) # hex_of(Dg(w))
                          THEN "sdb_discard" ELSE "sdb_replace",
                ![w].fd = 0]
    /\ inodes' = FreeUnreferenced(fs, inodes, wk')
    /\ mismatched' = IF hex_of(sha256(wk[w].h)) # hex_of(Dg(w))
                     THEN mismatched \cup {Dg(w)} ELSE mismatched
    /\ UNCHANGED <<ddiffVars, retryVars, fetchVars, sessVars, out_at_start, mainVars, next_task, futures, DOWNLOADED, fs,
                   links, file_writes>>

\* The marker kept on a mismatch.
SdbDiscard_keep(w) ==
    /\ wk[w].pc = "sdb_discard"
    /\ wk' = [wk EXCEPT ![w].pc = "sdb_remove"]
    /\ UNCHANGED <<ddiffVars, retryVars, fetchVars, sessVars, out_at_start, mainVars, next_task, futures,
                   DOWNLOADED, fs, inodes, links, file_writes, mismatched>>

\* with DOWNLOADED_LOCK: DOWNLOADED.discard(digest)
SdbDiscard(w) ==
    /\ wk[w].pc = "sdb_discard"
    /\ DOWNLOADED' = DOWNLOADED \ {Dg(w)}
    /\ wk' = [wk EXCEPT ![w].pc = "sdb_remove"]
    /\ UNCHANGED <<ddiffVars, retryVars, fetchVars, sessVars, out_at_start, mainVars, next_task, futures, fs, inodes, links,
                   file_writes, mismatched>>

\* os.remove(tmp); raise RuntimeError("SHA256 mismatch ...")
SdbRemove(w) ==
    /\ wk[w].pc = "sdb_remove"
    /\ LET tmp == part_path(blob_file_path(Dg(w)))
       IN  IF tmp \notin DOMAIN fs
           THEN /\ Raised(w, "FileNotFoundError")
                /\ UNCHANGED <<fs, inodes>>
           ELSE /\ Raised(w, "SHA256 mismatch")
                /\ fs' = removed(tmp)
                /\ inodes' = FreeUnreferenced(fs', inodes, wk')
    /\ UNCHANGED <<ddiffVars, retryVars, fetchVars, sessVars, out_at_start, mainVars, next_task, DOWNLOADED, links,
                   file_writes, mismatched>>

\* os.replace(tmp, dest_path)
SdbReplace(w) ==
    /\ wk[w].pc = "sdb_replace"
    /\ LET dest == blob_file_path(Dg(w))
           tmp == part_path(dest)
       IN  IF tmp \notin DOMAIN fs
           THEN /\ Raised(w, "FileNotFoundError")
                /\ UNCHANGED <<fs, inodes>>
           ELSE /\ wk' = [wk EXCEPT ![w].pc = "blob_loop", ![w].k = @ + 1,
                                    ![w].h = <<>>, ![w].stream = <<>>]
                /\ fs' = replaced(tmp, dest)
                /\ inodes' = FreeUnreferenced(fs', inodes, wk')
                /\ UNCHANGED futures
    /\ UNCHANGED <<ddiffVars, retryVars, fetchVars, sessVars, out_at_start, mainVars, next_task, DOWNLOADED, links,
                   file_writes, mismatched>>

\* Link files written before the blob loop is over.
MapRepository_early(w) ==
    /\ wk[w].pc = "blob_loop"
    /\ links' = repository_links(Ref(w), Mdgst(w), Man(w)) @@ links
    /\ futures' = [futures EXCEPT ![wk[w].task] = "ok"]
    /\ wk' = [wk EXCEPT ![w] = IdleWorker]
    /\ UNCHANGED <<ddiffVars, retryVars, fetchVars, sessVars, out_at_start, mainVars, next_task,
                   DOWNLOADED, fs, inodes, file_writes, mismatched>>

\* map_repository(out, repo, tag, mdgst, cfg, layers); return {...}
MapRepository(w) ==
    /\ wk[w].pc = "blob_loop"
    /\ wk[w].k > Len(required_blobs(Man(w)))
    /\ links' = repository_links(Ref(w), Mdgst(w), Man(w)) @@ links
    /\ futures' = [futures EXCEPT ![wk[w].task] = "ok"]
    /\ wk' = [wk EXCEPT ![w] = IdleWorker]
    /\ UNCHANGED <<ddiffVars, retryVars, fetchVars, sessVars, out_at_start, mainVars, next_task, DOWNLOADED, fs, inodes,
                   file_writes, mismatched>>

(***************************************************************************)
(* main(): the as_completed loop and the summary.                          *)
(***************************************************************************)
Finished(i) == futures[i] \notin {"pending", "running"}
Collected(i) ==
    \/ \E j \in 1..Len(results) : results[j] = i
    \/ \E j \in 1..Len(errors) : errors[j] = i

\* An exception of fut.result() left uncaught: main() stops at the first
\* failed future.
CollectFuture_abort(i) ==
    /\ main_pc = "collect"
    /\ Finished(i)
    /\ ~Collected(i)
    /\ IF futures[i] = "ok"
       THEN results' = Append(results, i) /\ UNCHANGED <<errors, main_pc>>
       ELSE main_pc' = "done" /\ UNCHANGED <<results, errors>>
    /\ UNCHANGED <<ddiffVars, retryVars, fetchVars, sessVars, out_at_start, wk, next_task, futures, DOWNLOADED,
                   fs, inodes, links, file_writes, mismatched>>

\* for fut in as_completed(fut2ref): results.append(res) or, on an
\* exception, errors.append(...)
CollectFuture(i) ==
    /\ main_pc = "collect"
    /\ Finished(i)
    /\ ~Collected(i)
    /\ IF futures[i] = "ok"
       THEN results' = Append(results, i) /\ UNCHANGED errors
       ELSE errors' = Append(errors, i) /\ UNCHANGED results
    /\ UNCHANGED <<ddiffVars, retryVars, fetchVars, sessVars, out_at_start, wk, next_task, futures, main_pc, DOWNLOADED, fs,
                   inodes, links, file_writes, mismatched>>

\* Every future was yielded and the pool has shut down: index.json, [done],
\* [errors].
Summary ==
    /\ main_pc = "collect"
    /\ \A i \in Tasks : Collected(i)
    /\ main_pc' = "done"
    /\ UNCHANGED <<ddiffVars, retryVars, fetchVars, sessVars, out_at_start, wk, next_task, futures, results, errors,
                   DOWNLOADED, fs, inodes, links, file_writes, mismatched>>

NextSeed ==
    \/ \E w \in Workers :
        \/ StartTask(w)
        \/ FetchManifest(w)
        \/ ManifestExists(w)
        \/ ManifestOpen(w)
        \/ ManifestWrite(w)
        \/ ManifestVerify(w)
        \/ ManifestRemove(w)
        \/ ManifestReplace(w)
        \/ ManifestMark(w)
        \/ BlobLoop(w)
        \/ BlobMarkExisting(w)
        \/ SdbExists(w)
        \/ SdbMarkExisting(w)
        \/ SdbLock(w)
        \/ SdbGet(w)
        \/ SdbOpen(w)
        \/ SdbChunk(w)
        \/ SdbVerify(w)
        \/ SdbDiscard(w)
        \/ SdbRemove(w)
        \/ SdbReplace(w)
        \/ MapRepository(w)
    \/ \E i \in Tasks : CollectFuture(i)
    \/ Summary

SpecSeed == InitSeed /\ [][NextSeed]_vars

(***************************************************************************)
(* Claims about the Store Seeder (hub2registry.py), under SpecSeed.        *)
(***************************************************************************)
CanonicalPaths == {blob_file_path(d) : d \in Digests \cup ManifestDigests}

\* The files at canonical blob paths and their bytes.
CanonicalFiles(files, nodes) ==
    [path \in DOMAIN files \cap CanonicalPaths |-> nodes[files[path]]]

\* The link files of reference i are all written.
LinksWritten(i) ==
    DOMAIN repository_links(refs[i],
                            sha256(ManifestBytes(HubManifestDigest(refs[i]))),
                            ManifestJson(HubManifestDigest(refs[i])))
        \subseteq DOMAIN links

\* The blobs image i needs.
RequiredOf(i) == ToSet(required_blobs(ManifestJson(HubManifestDigest(refs[i]))))

\* C6: in every reachable state a file at a canonical blob path holds
\* complete bytes whose sha256 is the digest of the path, and no writer has
\* the file at a canonical path open for writing.
C6_CanonicalBlobsVerified ==
    \A d \in Digests \cup ManifestDigests :
        blob_file_path(d) \in DOMAIN fs =>
            /\ sha256(inodes[fs[blob_file_path(d)]]) = d
            /\ \A w \in Workers : wk[w].fd # fs[blob_file_path(d)]

\* C7: whenever process_image returned successfully for an image, the config
\* blob and every layer blob of the image exist at their canonical paths.
C7_SuccessImpliesBlobsPresent ==
    \A i \in Tasks :
        futures[i] = "ok" =>
            \A d \in RequiredOf(i) : blob_file_path(d) \in DOMAIN fs

C9_Step ==
    \A w \in Workers :
        /\ (wk[w].pc = "sdb_stream" /\ wk'[w].pc = "sdb_discard") =>
              /\ blob_file_path(Dg(w)) \notin DOMAIN fs'
              /\ CanonicalFiles(fs', inodes') = CanonicalFiles(fs, inodes)
        /\ (wk[w].pc = "sdb_discard" /\ wk'[w].pc # "sdb_discard") =>
              /\ wk'[w].pc = "sdb_remove"
              /\ Dg(w) \notin DOWNLOADED'
              /\ blob_file_path(Dg(w)) \notin DOMAIN fs'
              /\ CanonicalFiles(fs', inodes') = CanonicalFiles(fs, inodes)
        /\ (wk[w].pc = "sdb_remove" /\ wk'[w].pc # "sdb_remove") =>
              /\ part_path(blob_file_path(Dg(w))) \notin DOMAIN fs'
              /\ futures'[wk[w].task] \in {"SHA256 mismatch", "FileNotFoundError"}
              /\ wk'[w] = IdleWorker
              /\ CanonicalFiles(fs', inodes') = CanonicalFiles(fs, inodes)

Occurrences(i) ==
    Cardinality({j \in 1..Len(results) : results[j] = i})
        + Cardinality({j \in 1..Len(errors) : errors[j] = i})

C10_EveryReferenceReported ==
    /\ \A i \in Tasks : Occurrences(i) <= 1
    /\ \A j \in 1..Len(results) : futures[results[j]] = "ok"
    /\ \A j \in 1..Len(errors) :
          futures[errors[j]] \notin {"ok", "pending", "running"}
    /\ main_pc # "done" => ENABLED NextSeed
    /\ main_pc = "done" =>
          /\ \A w \in Workers : wk[w].pc = "idle"
          /\ \A i \in Tasks : Finished(i) /\ Occurrences(i) = 1
          /\ Len(results) + Len(errors) = Len(refs)

C10_Witness ==
    /\ main_pc = "done"
    /\ futures[1] \notin {"ok", "pending", "running"}
    /\ futures[2] = "ok"
    /\ futures[3] = "ok"
    /\ Len(results) = 2
    /\ Len(errors) = 1

(***************************************************************************)
(* hub2registry.py: _with_retry(fn, retries=5, base_delay=1.0,             *)
(* max_delay=8.0), one call of it.                                         *)
(***************************************************************************)
retries == 5
base_delay == 1
max_delay == 8

\* if status in (429, 500, 502, 503, 504)
RetryableStatuses == {429, 500, 502, 503, 504}

\* What fn() may do: return a response, raise requests.HTTPError (with the
\* status of its response, 0 when it has none), requests.ConnectionError,
\* requests.Timeout, or an exception _with_retry does not catch.
FnOutcomes ==
    {[kind |-> "ok", status |-> 200]}
    \cup [kind : {"HTTPError"}, status : {0, 404, 429, 500, 501, 502, 503, 504}]
    \cup [kind : {"ConnectionError", "Timeout", "TooManyRedirects"}, status : {0}]

\* The except clauses that sleep and continue.
caught_for_retry(r) ==
    \/ r.kind = "HTTPError" /\ r.status \in RetryableStatuses
    \/ r.kind \in {"ConnectionError", "Timeout"}

\* A backoff without the ceiling.
retry_delay_unbounded(i) == base_delay * 2^i

\* delay = min(max_delay, base_delay * (2 ** i))
retry_delay(i) ==
    IF base_delay * 2^i < max_delay THEN base_delay * 2^i ELSE max_delay

InitRetry ==
    /\ DiffIdle
    /\ SeedIdle
    /\ FetchIdle
    /\ SessIdle
    /\ rpc = "call"
    /\ attempt = 0
    /\ last = NoError
    /\ calls = <<>>
    /\ delays = <<>>
    /\ outcome = NoError

\* try: return fn()   and the except clauses up to the raise or the sleep
RetryCall ==
    /\ rpc = "call"
    /\ \E r \in FnOutcomes :
        /\ calls' = Append(calls, r)
        /\ IF r.kind = "ok"
           THEN rpc' = "returned" /\ outcome' = r
           ELSE IF caught_for_retry(r)
           THEN rpc' = "sleep" /\ UNCHANGED outcome
           ELSE rpc' = "raised" /\ outcome' = r
    /\ UNCHANGED <<ddiffVars, seedVars, fetchVars, sessVars, attempt, last, delays>>

\* time.sleep(delay); last = e; continue
RetrySleep ==
    /\ rpc = "sleep"
    /\ delays' = Append(delays, retry_delay(attempt))
    /\ last' = calls[Len(calls)]
    /\ attempt' = attempt + 1
    /\ rpc' = IF attempt + 1 < retries THEN "call" ELSE "exhausted"
    /\ UNCHANGED <<ddiffVars, seedVars, fetchVars, sessVars, calls, outcome>>

\* The loop is over: if last: raise last  (otherwise None is returned)
RetryExhausted ==
    /\ rpc = "exhausted"
    /\ IF last # NoError
       THEN rpc' = "raised" /\ outcome' = last
       ELSE rpc' = "returned" /\ outcome' = NoError
    /\ UNCHANGED <<ddiffVars, seedVars, fetchVars, sessVars, attempt, last, calls, delays>>

NextRetry ==
    \/ RetryCall
    \/ RetrySleep
    \/ RetryExhausted

SpecRetry == InitRetry /\ [][NextRetry]_vars

\* The thread running _with_retry is scheduled until the call ends.
SpecRetryFair == SpecRetry /\ WF_vars(NextRetry)

(***************************************************************************)
(* Claims about _with_retry.                                               *)
(***************************************************************************)
\* The failures the specification calls retryable: HTTP 429, any 5xx
\* status, a connection error, a timeout.
RetryableAsSpecified(r) ==
    \/ r.kind = "HTTPError" /\ (r.status = 429 \/ r.status \in 500..599)
    \/ r.kind \in {"ConnectionError", "Timeout"}

\* C11: a failure with HTTP 429, any 5xx status or a connection/timeout
\* error becomes final only when the retry count is used up, and a failure
\* with any other HTTP status is final on the first attempt.
C11_RetriedAsSpecified ==
    /\ \A k \in 1..Len(calls) :
          (calls[k].kind = "HTTPError" /\ ~RetryableAsSpecified(calls[k]))
              => k = 1 /\ rpc = "raised" /\ outcome = calls[k]
    /\ (rpc = "raised" /\ RetryableAsSpecified(outcome))
          => Len(calls) = retries

\* C20: _with_retry invokes the call at most retries times; the k-th delay
\* is min(max_delay, base_delay * 2^(k-1)), so the delays never decrease and
\* never exceed max_delay; when every attempt failed with an error that is
\* retried, the last error is raised and no value is returned.
C20_Bounded ==
    /\ Len(calls) <= retries
    /\ Len(delays) <= Len(calls)
    /\ \A k \in 1..Len(delays) :
          /\ delays[k] <= max_delay
          /\ delays[k] = IF base_delay * 2^(k - 1) < max_delay
                         THEN base_delay * 2^(k - 1) ELSE max_delay
          /\ k > 1 => delays[k - 1] <= delays[k]
    /\ (rpc \in {"returned", "raised"}
        /\ Len(calls) = retries
        /\ \A k \in 1..Len(calls) : caught_for_retry(calls[k]))
          => rpc = "raised" /\ outcome = calls[retries]

\* C20: ... and every call of _with_retry ends.
C20_Terminates == []C20_Bounded /\ <>(rpc \in {"returned", "raised"})

C20_Witness ==
    /\ rpc = "raised"
    /\ Len(calls) = retries
    /\ delays = <<1, 2, 4, 8, 8>>
    /\ outcome = [kind |-> "HTTPError", status |-> 503]

(***************************************************************************)
(* Claims about failures of the diff / pack / replay pipeline, under       *)
(* SpecDiff.                                                               *)
(***************************************************************************)
\* The registry cannot mount the blob of request op: it answers 202.
NotMountable(op) == op.op = "mount" /\ <<op.from, op.digest>> \notin dstBlobs

PutManifestSent == \E j \in 1..Len(oplog) : oplog[j].op = "put_manifest"

\* C12: a cross-mount the registry answers with 202 is the last request of
\* the replay: load_image has failed, no upload of the digest and no later
\* mount or upload was sent, and the target manifest was not PUT.
C12_MountFallbackIsFailure ==
    \A j \in 1..Len(oplog) :
        NotMountable(oplog[j]) =>
            /\ j = Len(oplog)
            /\ dpc = "load_failed"
            /\ ~PutManifestSent
            /\ replays = 1 => target_tag \notin DOMAIN dstTags

C12_Witness ==
    /\ dpc = "load_failed"
    /\ Len(oplog) >= 2
    /\ ~NotMountable(oplog[1])
    /\ NotMountable(oplog[Len(oplog)])
    /\ oplog[Len(oplog)].digest \in Digests

\* C13: diff_image that failed wrote no archive, and an archive holds the
\* whole body of every exclusive blob; the target manifest is PUT only after
\* every mountable blob was mounted and every exclusive blob uploaded, so a
\* replay that failed before has not published the target tag.
C13_FailureAborts ==
    /\ dpc = "diff_failed" => archive = None
    /\ archive # None =>
          \A d \in diff_blobs :
              /\ download_blob_name(d) \in DOMAIN archive
              /\ archive[download_blob_name(d)] = Body(d)
    /\ PutManifestSent =>
          /\ \A k \in 1..Len(mount_blobs) :
                /\ \E j \in 1..Len(oplog) :
                      oplog[j].op = "mount" /\ oplog[j].digest = mount_blobs[k]
                /\ <<repo_of(target_tag), mount_blobs[k]>> \in dstBlobs
          /\ \A k \in 1..Len(upload_blobs) :
                /\ \E j \in 1..Len(oplog) :
                      oplog[j].op = "upload" /\ oplog[j].digest = upload_blobs[k]
                /\ <<repo_of(target_tag), upload_blobs[k]>> \in dstBlobs
    /\ (replays = 1 /\ ~PutManifestSent) => target_tag \notin DOMAIN dstTags

C13_Witness ==
    /\ dpc = "load_failed"
    /\ replays = 1
    /\ Len(oplog) >= 3
    /\ oplog[1].op = "mount"
    /\ oplog[Len(oplog)].op = "upload"
    /\ <<repo_of(target_tag), oplog[Len(oplog)].digest>> \notin dstBlobs
    /\ target_tag \notin DOMAIN dstTags

\* C14: the staging directory is gone whenever diff_image or load_image has
\* ended, by success or by failure.
C14_StagingRemoved ==
    /\ dpc \in {"diff_failed", "load_image"} => output_dir = None
    /\ dpc \in {"load_failed", "load_done"} => input_dir = None

\* C16: once a replay of the package completed, the target tag resolves to
\* the manifest and media type the package holds, during and after every
\* further replay of the package, completed or not.
C16_ReplayIdempotent ==
    (replays >= 2 \/ dpc = "load_done") =>
        /\ target_tag \in DOMAIN dstTags
        /\ dstTags[target_tag] =
              [manifest |-> srcTarget,
               mediaType |-> IF strip(content_type_of(srcContentType)) = <<>>
                             THEN DOCKER_MANIFEST_V2
                             ELSE strip(content_type_of(srcContentType))]

C16_Witness ==
    /\ replays = 2
    /\ dpc = "load_done"
    /\ \E j \in 1..Len(oplog) : oplog[j].op = "mount"
    /\ \E j \in 1..Len(oplog) : oplog[j].op = "upload"
    /\ dstTags[target_tag].manifest = srcTarget

\* C17: when the base or the target manifest has an index/list media type
\* or a media type outside the allow-list, diff_image fails once both
\* manifests are fetched (the media type of the target's response is then
\* recorded): no blob is requested, no file is staged and no archive is
\* written.
Unsupported(manifest) ==
    \/ manifest.mediaType \in {DOCKER_MANIFEST_LIST_V2, OCI_INDEX_V1}
    \/ manifest.mediaType \notin {<<>>, DOCKER_MANIFEST_V2, OCI_MANIFEST_V1}

WellFormedDigest(digest) ==
    /\ digest_syntax_ok(digest)
    /\ digest[1] = "sha256" => Len(digest) = 4

C19_OnlyWellFormedRequested ==
    \A digest \in blob_gets : WellFormedDigest(digest)

(***************************************************************************)
(* Claims about the order of the steps of process_image, under SpecSeed.   *)
(***************************************************************************)
\* The link files only image i writes (another tag of the same repository
\* writes the same _layers and revisions links).
OwnLinks(i) ==
    DOMAIN repository_links(refs[i],
                            sha256(ManifestBytes(HubManifestDigest(refs[i]))),
                            ManifestJson(HubManifestDigest(refs[i])))
    \ UNION {DOMAIN repository_links(refs[j],
                            sha256(ManifestBytes(HubManifestDigest(refs[j]))),
                            ManifestJson(HubManifestDigest(refs[j])))
             : j \in Tasks \ {i}}

\* An image whose process_image has not returned has none of its own link
\* files.
C18_NoLinksUnlessReturned ==
    \A i \in Tasks :
        futures[i] # "ok" =>
            (links = <<>> \/ OwnLinks(i) \cap DOMAIN links = {})

\* A download of an image starts only when the image's manifest is resolved
\* and its manifest blob is in the store; link files are written only by a
\* worker that is past the last blob of its image and has no download open,
\* and that step ends process_image with success; the step that ends it
\* with an error writes no link file.
C18_Step ==
    /\ \A w \in Workers :
          (wk[w].pc = "sdb_open" /\ wk'[w].pc = "sdb_stream") =>
              /\ blob_file_path(Mdgst(w)) \in DOMAIN fs
              /\ links' = links
    /\ links' # links =>
          \E w \in Workers :
              /\ wk[w].pc = "blob_loop"
              /\ wk[w].k > Len(required_blobs(Man(w)))
              /\ wk[w].fd = 0
              /\ blob_file_path(Mdgst(w)) \in DOMAIN fs
              /\ futures'[wk[w].task] = "ok"
              /\ links' = repository_links(Ref(w), Mdgst(w), Man(w)) @@ links
    /\ \A i \in Tasks :
          (futures[i] = "running" /\ futures'[i] \notin {"running", "ok"})
              => links' = links

\* C18: within one image, manifest resolution precedes every blob
\* download, every blob download precedes the link files, and an image that
\* failed has written none of its link files.
C18_ManifestBlobsLinks == []C18_NoLinksUnlessReturned /\ [][C18_Step]_vars

C18_Witness ==
    /\ futures[1] = "ConnectionError"
    /\ futures[2] = "ok"
    /\ links # <<>>
    /\ OwnLinks(1) \cap DOMAIN links = {}
    /\ OwnLinks(2) \subseteq DOMAIN links
    /\ file_writes[DigestA] = 1

(***************************************************************************)
(* hub2registry.py: fetch_manifest, and what process_image does with the   *)
(* manifest it returns, for one reference and an empty output directory.   *)
(***************************************************************************)
\* Longest "manifests" list of an index.
MaxEntries == 2

\* dict.get(key, default)
get(d, key, default) == IF key \in DOMAIN d THEN d[key] ELSE default

\* {}
EmptyDict == [k \in {} |-> k]

\* The "platform" objects of index entries.
Platforms ==
    { [os |-> "linux", architecture |-> "amd64"],
      [os |-> "linux", architecture |-> "arm64"],
      [os |-> "windows", architecture |-> "amd64"],
      [os |-> "unknown", architecture |-> "unknown"] }

\* The entries of an index: a platform and a digest, or a digest only.
IndexEntries ==
    [platform : Platforms, digest : ManifestDigests]
        \cup [digest : ManifestDigests]

Indexes == UNION {[1..n -> IndexEntries] : n \in 0..MaxEntries}

\* Content-Type headers of index and of image manifest responses.
IndexContentTypes ==
    { DOCKER_MANIFEST_LIST_V2,
      OCI_INDEX_V1,
      OCI_INDEX_V1 \o <<";", " ", "charset=utf-8">> }
ManifestContentTypes == {DOCKER_MANIFEST_V2, OCI_MANIFEST_V1}

\* The bytes of an index (no manifest the model knows has them).
IndexBytes == <<Hole>>

\* What the registry answers GET manifests/{ref} with: an index, or the
\* image manifest the tag resolves to.
HubResponses ==
    [ct : IndexContentTypes, content : {IndexBytes}, manifests : Indexes]
        \cup [ct : ManifestContentTypes,
              content : {ManifestBytes(md) : md \in ManifestDigests},
              manifests : {<<>>}]

\* The reference process_image is called with.
FetchRef == refs[1]

\* "manifest.list.v2+json" in ct or "image.index.v1+json" in ct
is_index_content_type(header) ==
    \E i \in 1..Len(header) :
        header[i] \in {DOCKER_MANIFEST_LIST_V2[1], OCI_INDEX_V1[1]}

\* p.get("os") == "linux" and p.get("architecture") == "amd64"
is_linux_amd64(m) ==
    LET p == get(m, "platform", EmptyDict)
    IN  get(p, "os", "None") = "linux" /\ get(p, "architecture", "None") = "amd64"

\* A selection that takes the first entry when no entry is linux/amd64.
pick_platform_fallback(manifests) ==
    LET hits == {i \in 1..Len(manifests) : is_linux_amd64(manifests[i])}
    IN  IF hits # {}
        THEN manifests[CHOOSE i \in hits : \A j \in hits : i <= j].digest
        ELSE IF manifests # <<>> THEN manifests[1].digest ELSE None

\* The for loop with its break: the digest of the first linux/amd64 entry,
\* or None.
pick_platform(manifests) ==
    LET hits == {i \in 1..Len(manifests) : is_linux_amd64(manifests[i])}
    IN  IF hits # {}
        THEN manifests[CHOOSE i \in hits : \A j \in hits : i <= j].digest
        ELSE None

\* json.loads(body.decode("utf-8"))
json_loads(bytes) == ManifestJson(bytes[1][1])

InitFetch ==
    /\ DiffIdle
    /\ SeedIdle
    /\ RetryIdle
    /\ SessIdle
    /\ fpc = "get"
    /\ hub \in HubResponses
    /\ resp_ct = <<>>
    /\ resp_body = <<>>
    /\ picked = None
    /\ fetch_error = None
    /\ fetched = {}
    /\ repo_links = <<>>

\* r = _with_retry(lambda: _get(.../manifests/{ref})); ct = ...; body = ...
FmGet ==
    /\ fpc = "get"
    /\ \/ /\ resp_ct' = hub.ct
          /\ resp_body' = hub.content
          /\ fpc' = "resolve"
          /\ UNCHANGED fetch_error
       \/ /\ fpc' = "failed"
          /\ fetch_error' = <<"RegistryError">>
          /\ UNCHANGED <<resp_ct, resp_body>>
    /\ UNCHANGED <<ddiffVars, seedVars, retryVars, sessVars, hub, picked, fetched, repo_links>>

\* if <index>: the loop over idx.get("manifests", []) and "if not picked"
FmSelect ==
    /\ fpc = "resolve"
    /\ IF is_index_content_type(resp_ct)
       THEN /\ picked' = pick_platform(hub.manifests)
            /\ IF picked' = None
               THEN /\ fpc' = "failed"
                    /\ fetch_error' = <<"linux/amd64 not found in index">>
               ELSE /\ fpc' = "get_picked"
                    /\ UNCHANGED fetch_error
       ELSE /\ fpc' = "loaded"
            /\ UNCHANGED <<picked, fetch_error>>
    /\ UNCHANGED <<ddiffVars, seedVars, retryVars, sessVars, hub, resp_ct, resp_body, fetched, repo_links>>

\* r2 = _with_retry(lambda: _get(.../manifests/{picked})); ct = ...; body = ...
FmGetPicked ==
    /\ fpc = "get_picked"
    /\ \/ /\ resp_ct' \in ManifestContentTypes
          /\ resp_body' = ManifestBytes(picked)
          /\ fpc' = "loaded"
          /\ UNCHANGED fetch_error
       \/ /\ fpc' = "failed"
          /\ fetch_error' = <<"RegistryError">>
          /\ UNCHANGED <<resp_ct, resp_body>>
    /\ UNCHANGED <<ddiffVars, seedVars, retryVars, sessVars, hub, picked, fetched, repo_links>>

\* man = json.loads(body), and process_image from the manifest digest to
\* map_repository: every blob written and the links, or the blobs written
\* before a download failed.
FmProcess ==
    /\ fpc = "loaded"
    /\ LET man == json_loads(resp_body)
           mdgst == sha256(resp_body)
           required == required_blobs(man)
       IN  \/ /\ fetched' = {mdgst} \cup ToSet(required)
              /\ repo_links' = repository_links(FetchRef, mdgst, man)
              /\ fpc' = "done"
              /\ UNCHANGED fetch_error
           \/ \E k \in 0..(Len(required) - 1) :
                /\ fetched' = {mdgst} \cup ToSet(SubSeq(required, 1, k))
                /\ fpc' = "failed"
                /\ fetch_error' = <<"RegistryError">>
                /\ UNCHANGED repo_links
    /\ UNCHANGED <<ddiffVars, seedVars, retryVars, sessVars, hub, resp_ct, resp_body, picked>>

NextFetch ==
    \/ FmGet
    \/ FmSelect
    \/ FmGetPicked
    \/ FmProcess

SpecFetch == InitFetch /\ [][NextFetch]_vars

(***************************************************************************)
(* C15: platform selection.                                                *)
(***************************************************************************)
\* The registry answered the manifest fetch with an index/list.
IndexAnswered ==
    hub.ct[1] \in {DOCKER_MANIFEST_LIST_V2[1], OCI_INDEX_V1[1]}

LinuxAmd64(m) ==
    /\ "platform" \in DOMAIN m
    /\ m.platform.os = "linux"
    /\ m.platform.architecture = "amd64"

LinuxAmd64Entries ==
    {i \in 1..Len(hub.manifests) : LinuxAmd64(hub.manifests[i])}

\* C15: when the registry answers the manifest fetch with an index, the
\* digest fetch_manifest picks is the digest of an entry whose platform is
\* linux/amd64, whatever the order of the entries, and the manifest that is
\* processed (stored, its blobs downloaded, its links written) is the one
\* that digest names; when no entry is linux/amd64 nothing is picked, the
\* image fails, no blob is downloaded and no link file is written.
C15_PlatformSelected ==
    IndexAnswered =>
        /\ picked # None =>
              \E i \in LinuxAmd64Entries : hub.manifests[i].digest = picked
        /\ fpc \in {"get_picked", "loaded", "done"} => picked # None
        /\ fpc \in {"loaded", "done"} => resp_body = ManifestBytes(picked)
        /\ fpc = "done" =>
              /\ fetched = {picked} \cup ToSet(required_blobs(ManifestJson(picked)))
              /\ repo_links = repository_links(FetchRef, picked, ManifestJson(picked))
        /\ (LinuxAmd64Entries # {} /\ fpc = "failed") =>
              fetch_error = <<"RegistryError">>
        /\ LinuxAmd64Entries = {} =>
              /\ fpc \in {"get", "resolve", "failed"}
              /\ picked = None
              /\ fetched = {}
              /\ repo_links = <<>>

\* An index that lists linux/arm64 before linux/amd64: the amd64 manifest
\* was stored and linked.
C15_Witness ==
    /\ hub.manifests =
          << [platform |-> [os |-> "linux", architecture |-> "arm64"],
              digest |-> ManifestDigest2],
             [platform |-> [os |-> "linux", architecture |-> "amd64"],
              digest |-> ManifestDigest1] >>
    /\ IndexAnswered
    /\ fpc = "done"
    /\ picked = ManifestDigest1
    /\ DigestB \in fetched
    /\ repo_links # <<>>

(***************************************************************************)
(* C21: files at canonical blob paths are left alone.                      *)
(***************************************************************************)
\* The file at a canonical path stays the same file with the same bytes.
Untouched(path) ==
    /\ path \in DOMAIN fs'
    /\ fs'[path] = fs[path]
    /\ inodes'[fs'[path]] = inodes[fs[path]]

\* C21: once a file exists at a canonical blob path, no step of the Store
\* Seeder overwrites, truncates or removes it (manifest blobs included), and
\* no step starts a download of a config or layer digest whose file exists.
C21_Step ==
    /\ \A path \in DOMAIN fs \cap CanonicalPaths : Untouched(path)
    /\ \A d \in Digests :
          blob_file_path(d) \in DOMAIN fs => file_writes'[d] = file_writes[d]

C21_ExistingBlobUntouched == [][C21_Step]_vars

(***************************************************************************)
(* C22: the DOWNLOADED marker and the disk.                                *)
(***************************************************************************)
\* Worker w is inside stream_download_blob for the digest d, or inside the
\* manifest-blob write of process_image for it.
InsideDownload(w, d) ==
    \/ /\ wk[w].pc \in {"sdb_exists", "sdb_mark_existing", "sdb_lock", "sdb_get",
                        "sdb_open", "sdb_stream", "sdb_discard", "sdb_remove",
                        "sdb_replace"}
       /\ Dg(w) = d
    \/ /\ wk[w].pc \in {"manifest_open", "manifest_write", "manifest_verify",
                        "manifest_remove", "manifest_replace", "manifest_mark"}
       /\ Mdgst(w) = d

\* C22: whenever a digest is in DOWNLOADED and no worker is inside
\* stream_download_blob (or the manifest-blob write) for it, the blob exists
\* at its canonical path; so a download that ended in failure has left the
\* digest out of DOWNLOADED.
C22_MarkedImpliesPresent ==
    \A d \in DOWNLOADED :
        (\A w \in Workers : ~InsideDownload(w, d)) =>
            blob_file_path(d) \in DOMAIN fs

(***************************************************************************)
(* C23: the repository cross-mounts name.                                  *)
(***************************************************************************)
\* The base reference load_image resolved in this replay: the explicit
\* argument, or the package's BASE file.
ResolvedBaseTag ==
    IF load_base_arg = None THEN strip(input_dir[<<"BASE">>]) ELSE load_base_arg

\* The repository push_images([base_tag]) pushed the base image to:
\* registry_tag = f"{ddiff_url_base}/{_prepare_tag(host_tag)}"
PushedBaseRepo == repo_of(prepare_tag(ResolvedBaseTag))

\* C23: in load_image every cross-mount names, in its "from" parameter, the
\* repository to which push_images pushed the base image in the same
\* replay, with the base reference given or read from BASE, with flattening
\* on or off.
C23_MountFromPushedRepo ==
    \A i \in 1..Len(oplog) :
        oplog[i].op = "mount" => oplog[i].from = PushedBaseRepo

(***************************************************************************)
(* hub2registry.py: the HTTP session of one worker thread, over the images *)
(* the pool hands to that thread one after another.                        *)
(***************************************************************************)
\* Most images one thread is handed.
MaxAssigned == 2

\* What the pool may hand to one thread: references of the submitted list,
\* in the order of submission.
AssignedSequences ==
    {q \in UNION {[1..n -> Tasks] : n \in 1..MaxAssigned} :
        \A i, j \in 1..Len(q) : i < j => q[i] < q[j]}

\* dockerhub_token(repository, "pull"): the token auth.docker.io issues for
\* scope repository:<repository>:pull.
dockerhub_token(repository) == <<"token", "repository", ":">> \o repository

\* get_session(repository): the values TLS.session may have after the
\* call.  A new session carries the token of the repository asked for, or
\* no Authorization header when the token request failed; a session the
\* thread already has is returned as it is.
get_session(repository) ==
    IF TLS_session = <<>>
    THEN { <<[Authorization |-> <<"Bearer", " ">> \o dockerhub_token(repository)]>>,
           <<[Authorization |-> None]>> }
    ELSE { TLS_session }

\* s.get(url, headers=...): the request as it leaves the session.
request(kind, repository, session) ==
    [kind |-> kind, repo |-> repository,
     Authorization |-> session[1].Authorization]

CurRef == refs[assigned[cur]]
CurBlobs == required_blobs(ManifestJson(HubManifestDigest(CurRef)))

InitSession ==
    /\ DiffIdle
    /\ SeedIdle
    /\ RetryIdle
    /\ FetchIdle
    /\ thread_pc = "take"
    /\ assigned \in AssignedSequences
    /\ cur = 0
    /\ blob_k = 0
    /\ TLS_session = <<>>
    /\ http_sent = {}

\* The pool runs process_image(out, repo, tag) of the next reference on
\* the thread.
SessTake ==
    /\ thread_pc = "take"
    /\ cur < Len(assigned)
    /\ cur' = cur + 1
    /\ blob_k' = 0
    /\ thread_pc' = "fetch_manifest"
    /\ UNCHANGED <<ddiffVars, seedVars, retryVars, fetchVars, assigned,
                   TLS_session, http_sent>>

\* fetch_manifest: s = get_session(repo); the GET of manifests/{ref}
\* answered with the manifest, or with an error (process_image raises).
SessFetchManifest ==
    /\ thread_pc = "fetch_manifest"
    /\ TLS_session' \in get_session(CurRef.repo)
    /\ http_sent' = http_sent \cup {request("manifest", CurRef.repo, TLS_session')}
    /\ \/ thread_pc' = "blobs" /\ blob_k' = 1
       \/ thread_pc' = "take" /\ UNCHANGED blob_k
    /\ UNCHANGED <<ddiffVars, seedVars, retryVars, fetchVars, assigned, cur>>

\* One pass of the blob loop: the blob is on disk or marked (no request),
\* or stream_download_blob: s = get_session(repo); the GET of
\* blobs/{digest}, which succeeds or raises.
SessBlob ==
    /\ thread_pc = "blobs"
    /\ blob_k <= Len(CurBlobs)
    /\ \/ /\ blob_k' = blob_k + 1
          /\ UNCHANGED <<thread_pc, TLS_session, http_sent>>
       \/ /\ TLS_session' \in get_session(CurRef.repo)
          /\ http_sent' = http_sent \cup {request("blob", CurRef.repo, TLS_session')}
          /\ \/ blob_k' = blob_k + 1 /\ UNCHANGED thread_pc
             \/ thread_pc' = "take" /\ UNCHANGED blob_k
    /\ UNCHANGED <<ddiffVars, seedVars, retryVars, fetchVars, assigned, cur>>

\* map_repository and return: the thread is free for the next reference.
SessReturn ==
    /\ thread_pc = "blobs"
    /\ blob_k > Len(CurBlobs)
    /\ thread_pc' = "take"
    /\ UNCHANGED <<ddiffVars, seedVars, retryVars, fetchVars, assigned, cur,
                   blob_k, TLS_session, http_sent>>

NextSession ==
    \/ SessTake
    \/ SessFetchManifest
    \/ SessBlob
    \/ SessReturn

SpecSession == InitSession /\ [][NextSession]_vars

(***************************************************************************)
(* C24: the token a request carries.                                       *)
(***************************************************************************)
\* C24: every manifest or blob request a worker thread sends for a
\* repository carries no Authorization header or the pull token issued for
\* that repository, whatever images the pool hands to the thread.
C24_TokenOfRequestedRepository ==
    \A r \in http_sent :
        \/ r.Authorization = None
        \/ r.Authorization = <<"Bearer", " ">> \o dockerhub_token(r.repo)

====
